---------------------------- MODULE Spec2Model ----------------------------
(***************************************************************************)
(* OpenSim ComponentPath: normalisation, splitting and absolute/relative   *)
(* resolution of slash-separated component paths.                          *)
(*                                                                         *)
(* A character is a one-character string, a path string is a sequence of   *)
(* characters, a path element (segment) is a non-empty sequence of         *)
(* characters.  "a/.." is << "a", "/", ".", "." >>.                        *)
(***************************************************************************)
EXTENDS Naturals, Sequences, FiniteSets

VARIABLES
    path,       \* the std::string argument of the pending/last string call
    call,       \* name of the last completed call ("none" before any)
    result,     \* what the last call returned, or the error it threw
    pathVec,    \* the (pathVec, isAbsolute) arguments available to the constructors
    self,       \* the ComponentPath object `*this`
    other,      \* the ComponentPath object `otherPath`
    made        \* the objects constructed so far, among "self" and "other"

vars == <<path, call, result, pathVec, self, other, made>>

---------------------------------------------------------------------------
(* Bounds of the model *)

\* longest raw string handed to normalize and split
MaxLen == 8

\* longest element list handed to a constructor
MaxSegs == 2

\* characters of the raw strings: the separator, the relative marker, a
\* name character and one invalid character
Alphabet == {"/", ".", "a", "*"}

Strings == UNION {[1..n -> Alphabet] : n \in 0..MaxLen}

\* elements of the lists handed to the constructors: two names and the
\* two relative markers
Elements == {<<"a">>, <<"b">>, <<".", ".">>, <<".">>}

\* the paths of the documented formRelativePath example, /a/b/c and /a/x/y
Examples ==
    {[vec |-> <<(<<"a">>), (<<"b">>), (<<"c">>)>>, isAbsolute |-> TRUE],
     [vec |-> <<(<<"a">>), (<<"x">>), (<<"y">>)>>, isAbsolute |-> TRUE]}

VecArgs ==
    [vec : UNION {[1..n -> Elements] : n \in 0..MaxSegs}, isAbsolute : BOOLEAN]
        \cup Examples

---------------------------------------------------------------------------
(* Program constants *)

separator == "/"

\* invalidChars with the asterisk forgotten
invalidCharsNoAsterisk == {"\\", "/", "+"}

invalidChars == {"\\", "/", "*", "+"}

Dot == <<".">>

DotDot == <<".", ".">>

---------------------------------------------------------------------------
(* Helpers on strings *)

Last(s) == s[Len(s)]

Front(s) == SubSeq(s, 1, Len(s) - 1)

isAbsoluteString(s) == s # <<>> /\ s[1] = separator

hasInvalidChar(seg) == \E i \in 1..Len(seg) : seg[i] \in invalidChars

\* the elements of s between separators, empty elements dropped; cur is
\* the element being read
RECURSIVE splitOnSeparator(_, _)
splitOnSeparator(s, cur) ==
    IF s = <<>>
    THEN IF cur = <<>> THEN <<>> ELSE <<cur>>
    ELSE IF Head(s) = separator
         THEN IF cur = <<>>
              THEN splitOnSeparator(Tail(s), <<>>)
              ELSE <<cur>> \o splitOnSeparator(Tail(s), <<>>)
         ELSE splitOnSeparator(Tail(s), Append(cur, Head(s)))

\* tokenize that collapses a run of separators by one only: every second
\* separator of a run opens an empty element ('a///a' reads as a, "", a)
RECURSIVE splitCollapsingOnce(_, _, _)
splitCollapsingOnce(s, cur, skipped) ==
    IF s = <<>>
    THEN IF cur = <<>> THEN <<>> ELSE <<cur>>
    ELSE IF Head(s) = separator
         THEN IF cur # <<>>
              THEN <<cur>> \o splitCollapsingOnce(Tail(s), <<>>, FALSE)
              ELSE IF skipped
                   THEN <<(<<>>)>> \o splitCollapsingOnce(Tail(s), <<>>, FALSE)
                   ELSE splitCollapsingOnce(Tail(s), <<>>, TRUE)
         ELSE splitCollapsingOnce(Tail(s), Append(cur, Head(s)), FALSE)

tokenizeCollapsingOnce(s) ==
    IF s = <<>> THEN <<>>
    ELSE IF Head(s) = separator THEN splitCollapsingOnce(Tail(s), <<>>, FALSE)
    ELSE splitCollapsingOnce(s, <<>>, FALSE)

tokenize(s) == splitOnSeparator(s, <<>>)

RECURSIVE joinElements(_)
joinElements(segs) ==
    IF segs = <<>> THEN <<>>
    ELSE IF Len(segs) = 1 THEN segs[1]
    ELSE segs[1] \o <<separator>> \o joinElements(Tail(segs))

\* canonical string of an element list: joined by the separator, prefixed
\* by it when absolute; the root is the separator alone
stringifyPath(segs, isAbsolute) ==
    IF isAbsolute THEN <<separator>> \o joinElements(segs)
    ELSE joinElements(segs)

---------------------------------------------------------------------------
(* ComponentPath::normalize *)

Thrown(kind) == [err |-> kind, str |-> <<>>]

Returned(s) == [err |-> "none", str |-> s]

\* stepsAboveRoot that forgets the absolute case: a leading '..' is kept
\* whatever the path
stepsAboveRootContentOnly(isAbsolute, inContent) == inContent

\* stepsAboveRoot that guards absolute paths only: a relative path keeps
\* every '..' it cannot resolve
stepsAboveRootAbsoluteOnly(isAbsolute, inContent) == isAbsolute

\* A '..' met while no real element is left to pop steps above the root of
\* the expression.  Leading '..' elements of a relative path are the one
\* exception: they are kept ('../a/b').  Everything else throws: any such
\* '..' of an absolute path ('/../a/b'), and a '..' of a relative path
\* that comes after its content has been popped away ('a/../..').
stepsAboveRoot(isAbsolute, inContent) == isAbsolute \/ inContent

\* The left-to-right scan over the elements.  stack holds the elements
\* kept so far; inContent is TRUE once an ordinary element has been read.
\* check selects the validation of the characters of each element.
RECURSIVE resolve(_, _, _, _, _)
resolve(toks, stack, isAbsolute, inContent, check) ==
    IF toks = <<>> THEN [err |-> "none", segs |-> stack]
    ELSE LET t == Head(toks)
             rest == Tail(toks)
         IN  IF t = Dot
             THEN resolve(rest, stack, isAbsolute, inContent, check)
             ELSE IF t = DotDot
             THEN IF stack # <<>> /\ Last(stack) # DotDot
                  THEN resolve(rest, Front(stack), isAbsolute, inContent, check)
                  ELSE IF stepsAboveRoot(isAbsolute, inContent)
                       THEN [err |-> "OutOfRoot", segs |-> <<>>]
                       ELSE resolve(rest, Append(stack, t), isAbsolute,
                                    inContent, check)
             ELSE IF check /\ hasInvalidChar(t)
                  THEN [err |-> "InvalidCharacter", segs |-> <<>>]
                  ELSE resolve(rest, Append(stack, t), isAbsolute, TRUE, check)

\* normalize that validates the characters of the whole string before it
\* resolves anything
normalizeValidatingFirst(s) ==
    LET isAbsolute == isAbsoluteString(s)
        toks == tokenize(s)
        r == resolve(toks, <<>>, isAbsolute, FALSE, FALSE)
    IN  IF \E i \in 1..Len(toks) : hasInvalidChar(toks[i])
        THEN Thrown("InvalidCharacter")
        ELSE IF r.err # "none" THEN Thrown(r.err)
        ELSE Returned(stringifyPath(r.segs, isAbsolute))

normalize(s) ==
    LET isAbsolute == isAbsoluteString(s)
        r == resolve(tokenize(s), <<>>, isAbsolute, FALSE, TRUE)
    IN  IF r.err # "none" THEN Thrown(r.err)
        ELSE Returned(stringifyPath(r.segs, isAbsolute))

---------------------------------------------------------------------------
(* ComponentPath::split *)

\* position of the last separator of s, 0 when it has none
lastSeparator(s) ==
    LET at == {i \in 1..Len(s) : s[i] = separator}
    IN  IF at = {} THEN 0 ELSE CHOOSE i \in at : \A j \in at : j <= i

RECURSIVE stripTrailingSeparators(_)
stripTrailingSeparators(s) ==
    IF s # <<>> /\ Last(s) = separator
    THEN stripTrailingSeparators(Front(s))
    ELSE s

\* headOf that leaves the trailing separators on the head
headOfUnstripped(s, pos) ==
    IF pos = 1 THEN <<separator>> ELSE SubSeq(s, 1, pos - 1)

\* head of a split at position pos > 0: what precedes the last separator,
\* trailing separators stripped; a head of separators only is the root
headOf(s, pos) ==
    LET stripped == stripTrailingSeparators(SubSeq(s, 1, pos - 1))
    IN  IF stripped = <<>> THEN <<separator>> ELSE stripped

split(s) ==
    LET pos == lastSeparator(s)
    IN  IF pos = 0 THEN [head |-> <<>>, tail |-> s]
        ELSE [head |-> headOf(s, pos), tail |-> SubSeq(s, pos + 1, Len(s))]

---------------------------------------------------------------------------
(* The ComponentPath value: its elements and its absolute flag *)

Path(segs, isAbsolute) == [segments |-> segs, isAbsolute |-> isAbsolute]

\* ComponentPath(): the empty path
DefaultPath == Path(<<>>, FALSE)

toString(p) == stringifyPath(p.segments, p.isAbsolute)

\* operator==
equals(p, q) == toString(p) = toString(q)

Failed(kind) == [err |-> kind, path |-> DefaultPath]

Made(p) == [err |-> "none", path |-> p]

\* ComponentPath(const std::string&): normalize, then take the elements
\* and the absolute flag of the normalized string
fromString(s) ==
    LET n == normalize(s)
    IN  IF n.err # "none" THEN Failed(n.err)
        ELSE Made(Path(tokenize(n.str), isAbsoluteString(n.str)))

\* ComponentPath(const std::vector<std::string>&, bool): stored as given
fromVector(segs, isAbsolute) == Made(Path(segs, isAbsolute))

\* formAbsolutePath that puts the elements of the path before those of
\* the base
formAbsolutePathSelfFirst(p, base) ==
    IF p.isAbsolute THEN Made(p)
    ELSE IF ~base.isAbsolute THEN Failed("Misuse")
    ELSE LET r == resolve(p.segments \o base.segments, <<>>, TRUE, FALSE, FALSE)
         IN  IF r.err # "none" THEN Failed(r.err)
             ELSE Made(Path(r.segs, TRUE))

formAbsolutePath(p, base) ==
    IF p.isAbsolute THEN Made(p)
    ELSE IF ~base.isAbsolute THEN Failed("Misuse")
    ELSE LET r == resolve(base.segments \o p.segments, <<>>, TRUE, FALSE, FALSE)
         IN  IF r.err # "none" THEN Failed(r.err)
             ELSE Made(Path(r.segs, TRUE))

\* number of leading elements on which a and b agree
RECURSIVE commonPrefix(_, _)
commonPrefix(a, b) ==
    IF a # <<>> /\ b # <<>> /\ Head(a) = Head(b)
    THEN 1 + commonPrefix(Tail(a), Tail(b))
    ELSE 0

\* "Both Paths must be absolute", checked on this path only
bothAbsoluteThisOnly(p, otherPath) == p.isAbsolute

\* formRelativePath requires both paths to be absolute
bothAbsolute(p, otherPath) == p.isAbsolute /\ otherPath.isAbsolute

\* the route taken the wrong way round, FROM this path TO otherPath
routeReversed(p, otherPath) == [from |-> p, to |-> otherPath]

\* the relative path of p.formRelativePath(otherPath) leads FROM otherPath
\* TO this path p
route(p, otherPath) == [from |-> otherPath, to |-> p]

\* one '..' for each element of from beyond the common prefix, then the
\* elements of to beyond it
relativeRoute(from, to) ==
    LET k == commonPrefix(to.segments, from.segments)
        ups == [i \in 1..(Len(from.segments) - k) |-> DotDot]
    IN  Path(ups \o SubSeq(to.segments, k + 1, Len(to.segments)), FALSE)

formRelativePath(p, otherPath) ==
    IF ~bothAbsolute(p, otherPath) THEN Failed("Misuse")
    ELSE LET r == route(p, otherPath)
         IN  Made(relativeRoute(r.from, r.to))

getParentPath(p) ==
    IF p.segments = <<>> THEN Made(p)
    ELSE Made(Path(Front(p.segments), p.isAbsolute))

---------------------------------------------------------------------------
(* The state machine: calls on strings *)

NoResult == [err |-> "pending"]

NoArgs == [vec |-> <<>>, isAbsolute |-> FALSE]

Init ==
    /\ path \in Strings
    /\ call = "none"
    /\ result = NoResult
    /\ pathVec = [self |-> NoArgs, other |-> NoArgs]
    /\ self = DefaultPath
    /\ other = DefaultPath
    /\ made = {}

\* normalize(path)
Normalize ==
    /\ call = "none"
    /\ call' = "normalize"
    /\ result' = normalize(path)
    /\ UNCHANGED <<path, pathVec, self, other, made>>

\* normalize(normalize(path)): the returned string is normalized again
Renormalize ==
    /\ call = "normalize"
    /\ result.err = "none"
    /\ call' = "renormalize"
    /\ path' = result.str
    /\ result' = normalize(result.str)
    /\ UNCHANGED <<pathVec, self, other, made>>

\* split(path)
Split ==
    /\ call = "none"
    /\ call' = "split"
    /\ result' = split(path)
    /\ UNCHANGED <<path, pathVec, self, other, made>>

Next == Normalize \/ Renormalize \/ Split

Spec == Init /\ [][Next]_vars

---------------------------------------------------------------------------
(* The state machine: ComponentPath objects *)

Slots == {"self", "other"}

PathInit ==
    /\ path = <<>>
    /\ call = "none"
    /\ result = NoResult
    /\ pathVec \in [Slots -> VecArgs]
    /\ self = DefaultPath
    /\ other = DefaultPath
    /\ made = {}

\* a successful construction yields the object of the slot, which is
\* never changed afterwards; a failed one yields no object
Construct(slot, new) ==
    /\ slot \notin made
    /\ made' = IF new.err = "none" THEN made \cup {slot} ELSE made
    /\ self' = IF slot = "self" /\ new.err = "none" THEN new.path ELSE self
    /\ other' = IF slot = "other" /\ new.err = "none" THEN new.path ELSE other

\* ComponentPath(const std::string& path), on the string that spells the
\* slot's element list
ConstructFromString(slot) ==
    LET s == stringifyPath(pathVec[slot].vec, pathVec[slot].isAbsolute)
        new == fromString(s)
    IN  /\ path' = s
        /\ call' = "ComponentPath(string)"
        /\ result' = new
        /\ Construct(slot, new)
        /\ UNCHANGED pathVec

\* ComponentPath(const std::vector<std::string>& pathVec, bool isAbsolute)
ConstructFromVector(slot) ==
    LET new == fromVector(pathVec[slot].vec, pathVec[slot].isAbsolute)
    IN  /\ call' = "ComponentPath(vector)"
        /\ result' = new
        /\ Construct(slot, new)
        /\ UNCHANGED <<path, pathVec>>

\* self.formAbsolutePath(other)
FormAbsolutePath ==
    /\ made = Slots
    /\ call' = "formAbsolutePath"
    /\ result' = formAbsolutePath(self, other)
    /\ UNCHANGED <<path, pathVec, self, other, made>>

\* self.formRelativePath(other)
FormRelativePath ==
    /\ made = Slots
    /\ call' = "formRelativePath"
    /\ result' = formRelativePath(self, other)
    /\ UNCHANGED <<path, pathVec, self, other, made>>

\* self.formAbsolutePath(other).formRelativePath(other): the second call,
\* on the path the first one returned
FormRelativeOfAbsolute ==
    /\ call = "formAbsolutePath"
    /\ result.err = "none"
    /\ call' = "formAbsolutePath.formRelativePath"
    /\ result' = formRelativePath(result.path, other)
    /\ UNCHANGED <<path, pathVec, self, other, made>>

\* self.getParentPath()
GetParentPath ==
    /\ made = Slots
    /\ call' = "getParentPath"
    /\ result' = getParentPath(self)
    /\ UNCHANGED <<path, pathVec, self, other, made>>

PathNext ==
    \/ \E slot \in Slots : ConstructFromString(slot)
    \/ \E slot \in Slots : ConstructFromVector(slot)
    \/ FormAbsolutePath
    \/ FormRelativePath
    \/ FormRelativeOfAbsolute
    \/ GetParentPath

PathSpec == PathInit /\ [][PathNext]_vars

---------------------------------------------------------------------------
(* Vocabulary of the properties, stated on the characters and elements of *)
(* the strings themselves                                                  *)

BadChars == {"\\", "*", "+"}

\* the elements of string r as pairs of positions: the maximal runs of
\* characters other than the separator
ElementsAt(r) ==
    {e \in (1..Len(r)) \X (1..Len(r)) :
        /\ e[1] <= e[2]
        /\ \A i \in e[1]..e[2] : r[i] # "/"
        /\ e[1] = 1 \/ r[e[1] - 1] = "/"
        /\ e[2] = Len(r) \/ r[e[2] + 1] = "/"}

IsDotAt(r, e) == e[2] = e[1] /\ r[e[1]] = "."

IsDotDotAt(r, e) == e[2] = e[1] + 1 /\ r[e[1]] = "." /\ r[e[2]] = "."

CanonicalString(r) ==
    /\ \A i \in 1..(Len(r) - 1) : ~(r[i] = "/" /\ r[i + 1] = "/")
    /\ (r # <<>> /\ r[Len(r)] = "/") => r = <<"/">>
    /\ \A i \in 1..Len(r) : r[i] \notin BadChars
    /\ \A e \in ElementsAt(r) :
        /\ ~IsDotAt(r, e)
        /\ IsDotDotAt(r, e) =>
            /\ r[1] # "/"
            /\ \A d \in ElementsAt(r) : d[1] < e[1] => IsDotDotAt(r, d)

IsOrdinary(t) == t # <<".">> /\ t # <<".", ".">>

IsBad(t) == \E i \in 1..Len(t) : t[i] \in BadChars

\* position of the first ordinary element of toks, Len(toks) + 1 without one
ContentStart(toks) ==
    LET at == {i \in 1..Len(toks) : IsOrdinary(toks[i])}
    IN  IF at = {} THEN Len(toks) + 1
        ELSE CHOOSE i \in at : \A j \in at : i <= j

\* element i is a '..' with as many '..' as ordinary elements between the
\* start of the content and itself: nothing is left for it to pop
ClimbsOut(toks, isAbsolute, i) ==
    LET from == IF isAbsolute THEN 1 ELSE ContentStart(toks)
    IN  /\ toks[i] = <<".", ".">>
        /\ i >= from
        /\ Cardinality({j \in from..(i - 1) : IsOrdinary(toks[j])})
             = Cardinality({j \in from..(i - 1) : toks[j] = <<".", ".">>})

Violates(toks, isAbsolute, i) == IsBad(toks[i]) \/ ClimbsOut(toks, isAbsolute, i)

---------------------------------------------------------------------------
(* Properties of normalize and split *)

\* C1: normalize is idempotent: normalizing a string normalize returned
\* succeeds and returns that very string.
C1_NormalizeIdempotent ==
    call = "renormalize" => result = Returned(path)

C1_Witness ==
    /\ call = "renormalize"
    /\ path = <<".", ".", "/", "a">>
    /\ result.err = "none"

\* C2: a string returned by normalize is canonical (no doubled separator,
\* no trailing separator but for the root, no '.' element, no invalid
\* character, '..' only as the leading run of a relative result) and is
\* absolute exactly when the argument is.
C2_NormalizedIsCanonical ==
    (call = "normalize" /\ result.err = "none") =>
        /\ CanonicalString(result.str)
        /\ (result.str # <<>> /\ result.str[1] = "/")
             <=> (path # <<>> /\ path[1] = "/")

C2_Witness ==
    /\ call = "normalize"
    /\ path = <<"/", "/", "a", "/", ".", "/", "/">>
    /\ result = Returned(<<"/", "a">>)

\* C3: normalize of an absolute string throws OutOfRoot, and returns no
\* string, whenever the scan reaches a '..' with no element left to pop.
C3_AbsoluteOutOfRoot ==
    LET toks == tokenize(path)
    IN  (/\ call = "normalize"
         /\ path # <<>> /\ path[1] = "/"
         /\ \E i \in 1..Len(toks) :
               /\ ClimbsOut(toks, TRUE, i)
               /\ \A j \in 1..(i - 1) : ~IsBad(toks[j]))
        => result = Thrown("OutOfRoot")

C3_Witness ==
    /\ call = "normalize"
    /\ path = <<"/", "a", "/", ".", ".", "/", ".", ".">>
    /\ result = Thrown("OutOfRoot")

\* C4: normalize of a relative string throws as well when a '..' steps
\* above the root of the expression, as in 'a/../..'.
C4_RelativeOutOfRootThrows ==
    LET toks == tokenize(path)
    IN  (/\ call = "normalize"
         /\ ~(path # <<>> /\ path[1] = "/")
         /\ \E i \in 1..Len(toks) : ClimbsOut(toks, FALSE, i))
        => result.err \in {"OutOfRoot", "InvalidCharacter"}

C4_Witness ==
    /\ call = "normalize"
    /\ path = <<"a", "/", ".", ".", "/", ".", ".">>
    /\ result = Thrown("OutOfRoot")

\* C9: split is total and syntactic: tail is what follows the last
\* separator, head what precedes it with its trailing separators stripped,
\* the root "/" when nothing else is left; without a separator head is
\* empty and tail the whole string.
C9_Split ==
    call = "split" =>
        LET h == result.head
            t == result.tail
            n == Len(path)
            pre == SubSeq(path, 1, n - Len(t) - 1)
        IN  /\ \A i \in 1..Len(t) : t[i] # "/"
            /\ Len(t) <= n /\ t = SubSeq(path, n - Len(t) + 1, n)
            /\ (path # <<>> /\ path[n] = "/") => t = <<>>
            /\ (\A i \in 1..n : path[i] # "/") => (h = <<>> /\ t = path)
            /\ path = <<>> => (h = <<>> /\ t = <<>>)
            /\ (\E i \in 1..n : path[i] = "/") =>
                /\ Len(t) < n /\ path[n - Len(t)] = "/"
                /\ IF \A i \in 1..Len(pre) : pre[i] = "/"
                   THEN h = <<"/">>
                   ELSE /\ Len(h) <= Len(pre)
                        /\ h = SubSeq(pre, 1, Len(h))
                        /\ h # <<>> /\ h[Len(h)] # "/"
                        /\ \A i \in (Len(h) + 1)..Len(pre) : pre[i] = "/"

C9_Witness ==
    /\ call = "split"
    /\ path = <<"a", "/", ".", ".", "/", "/", "*", "/">>
    /\ result = [head |-> <<"a", "/", ".", ".", "/", "/", "*">>, tail |-> <<>>]

\* C10: normalize fails fast in scan order: the error is that of the first
\* violating element (an invalid character, or a '..' with nothing to
\* pop), no string is returned, and without a violating element the call
\* succeeds.
C10_FailFast ==
    call = "normalize" =>
        LET toks == tokenize(path)
            isAbsolute == path # <<>> /\ path[1] = "/"
            bad == {i \in 1..Len(toks) : Violates(toks, isAbsolute, i)}
        IN  IF bad = {} THEN result.err = "none"
            ELSE LET first == CHOOSE i \in bad : \A j \in bad : i <= j
                 IN  result = Thrown(IF IsBad(toks[first])
                                     THEN "InvalidCharacter"
                                     ELSE "OutOfRoot")

C10_Witness ==
    /\ call = "normalize"
    /\ path = <<"/", ".", ".", "/", "*">>
    /\ result = Thrown("OutOfRoot")

C10_WitnessReversed ==
    /\ call = "normalize"
    /\ path = <<"/", "*", "/", ".", ".", "/", ".", ".">>
    /\ result = Thrown("InvalidCharacter")

---------------------------------------------------------------------------
(* Properties of the ComponentPath objects *)

\* the invariants of the data model: no element is empty or '.', none
\* holds the separator or an invalid character, '..' elements form the
\* leading run of a path that is not absolute
Canonical(p) ==
    \A i \in 1..Len(p.segments) :
        LET e == p.segments[i]
        IN  /\ e # <<>>
            /\ e # <<".">>
            /\ \A c \in 1..Len(e) : e[c] # "/" /\ e[c] \notin BadChars
            /\ e = <<".", ".">> =>
                /\ ~p.isAbsolute
                /\ \A j \in 1..(i - 1) : p.segments[j] = <<".", ".">>

\* number of '..' elements at the head of an element list
LeadingUps(segs) ==
    Cardinality({i \in 1..Len(segs) :
                    \A j \in 1..i : segs[j] = <<".", ".">>})

\* p climbs out of the last elements of base and enters the first of them
\* again: after its m >= 1 leading '..' comes the name base has m places
\* from its end
Reenters(p, base) ==
    LET m == LeadingUps(p.segments)
        n == Len(base.segments)
    IN  /\ m >= 1
        /\ m <= n
        /\ Len(p.segments) > m
        /\ p.segments[m + 1] = base.segments[n - m + 1]

\* length of the longest common leading run of two element lists
CommonRun(a, b) ==
    LET ks == {k \in 0..Len(a) : k <= Len(b) /\ SubSeq(a, 1, k) = SubSeq(b, 1, k)}
    IN  CHOOSE k \in ks : \A j \in ks : j <= k

\* C5 as stated: for a relative p and an absolute base,
\* p.formAbsolutePath(base).formRelativePath(base) equals p whenever the
\* absolute form exists.
C5_RoundTrip ==
    (/\ call = "formAbsolutePath.formRelativePath"
     /\ Canonical(self) /\ Canonical(other)
     /\ ~self.isAbsolute /\ other.isAbsolute)
    => (result.err = "none" /\ equals(result.path, self))

\* C5 amended: the round trip returns p exactly when p does not climb out
\* of base and straight back into it; when it does, the detour is dropped
\* and a different path is returned.
C5_RoundTripUnlessReentering ==
    (/\ call = "formAbsolutePath.formRelativePath"
     /\ Canonical(self) /\ Canonical(other)
     /\ ~self.isAbsolute /\ other.isAbsolute)
    => /\ result.err = "none"
       /\ equals(result.path, self) <=> ~Reenters(self, other)

C5_Witness ==
    /\ call = "formAbsolutePath.formRelativePath"
    /\ self = Path(<<(<<".", ".">>), (<<"a">>)>>, FALSE)
    /\ other = Path(<<(<<"a">>), (<<"b">>)>>, TRUE)
    /\ result = Made(self)

\* C6: for absolute paths, self.formRelativePath(other) is the relative
\* path of one '..' for each element of other beyond the common leading
\* run followed by the elements of self beyond it; it is the empty
\* relative path when self equals other; the call fails with Misuse when
\* either path is not absolute.
C6_FormRelativePath ==
    call = "formRelativePath" =>
        IF ~self.isAbsolute \/ ~other.isAbsolute
        THEN result.err = "Misuse"
        ELSE LET k == CommonRun(self.segments, other.segments)
             IN  /\ result.err = "none"
                 /\ ~result.path.isAbsolute
                 /\ result.path.segments =
                      [i \in 1..(Len(other.segments) - k) |-> <<".", ".">>]
                        \o SubSeq(self.segments, k + 1, Len(self.segments))
                 /\ equals(self, other) => result.path = DefaultPath

C6_Witness ==
    /\ call = "formRelativePath"
    /\ self = Path(<<(<<"a">>), (<<"b">>)>>, TRUE)
    /\ other = Path(<<(<<"a">>), (<<"a">>)>>, TRUE)
    /\ result = Made(Path(<<(<<".", ".">>), (<<"b">>)>>, FALSE))

C6_WitnessMisuse ==
    /\ call = "formRelativePath"
    /\ ~self.isAbsolute
    /\ other.isAbsolute
    /\ result.err = "Misuse"

IsABC(p) == p = Path(<<(<<"a">>), (<<"b">>), (<<"c">>)>>, TRUE)

IsAXY(p) == p = Path(<<(<<"a">>), (<<"x">>), (<<"y">>)>>, TRUE)

\* C7 as stated: formRelativePath on "/a/b/c" with argument "/a/x/y"
\* returns "../../x/y".
C7_ExampleAsStated ==
    (call = "formRelativePath" /\ IsABC(self) /\ IsAXY(other)) =>
        toString(result.path) =
            <<".", ".", "/", ".", ".", "/", "x", "/", "y">>

\* C7 amended: formRelativePath on "/a/b/c" with argument "/a/x/y"
\* returns "../../b/c", the path from the argument to the object.
C7_Example ==
    (call = "formRelativePath" /\ IsABC(self) /\ IsAXY(other)) =>
        /\ result.err = "none"
        /\ ~result.path.isAbsolute
        /\ toString(result.path) =
            <<".", ".", "/", ".", ".", "/", "b", "/", "c">>

C7_Witness ==
    /\ call = "formRelativePath"
    /\ IsABC(self)
    /\ IsAXY(other)
    /\ result.err = "none"

\* C8: the invariants of the data model hold for every constructed path,
\* whichever constructor made it, and for every path returned by
\* getParentPath, formAbsolutePath and formRelativePath.
C8_DataModelInvariants ==
    /\ Canonical(self)
    /\ Canonical(other)
    /\ (call \notin {"none", "normalize", "renormalize", "split"}
          /\ result.err = "none") => Canonical(result.path)

=============================================================================
